---- MODULE Spec2Model ----
(***************************************************************************)
(* Model of the GameClient class of src/game.js (first class declaration,  *)
(* lines 2-880): connection lifecycle, world state store, interpolation,   *)
(* camera, and keyboard / pointer input translation.                       *)
(*                                                                         *)
(* Coordinates are JavaScript numbers in the source.  They are modelled on *)
(* a fixed-point grid of one world unit; every arithmetic result is        *)
(* rounded to the nearest grid point (ties to even), as IEEE-754 rounds to *)
(* the nearest representable double.  zoomLevel is kept in tenths.         *)
(***************************************************************************)
EXTENDS Integers, Sequences, FiniteSets, TLC

VARIABLES
    socks,            \* every WebSocket created so far, in creation order; this.socket is the last
    isConnected,      \* this.isConnected
    reconnectTimers,  \* pending setTimeout(() => this.connectToServer(), 3000) callbacks
    sent,             \* messages handed to this.socket.send on the current this.socket
    playerId,         \* this.playerId
    players,          \* this.players
    avatars,          \* this.avatars
    myPlayer,         \* this.myPlayer
    loadedAvatars,    \* this.loadedAvatars
    playerPositions,  \* this.playerPositions
    playerTargets,    \* this.playerTargets
    camera,           \* this.camera
    zoomLevel,        \* this.zoomLevel, in tenths
    canvas,           \* this.canvas.width and this.canvas.height
    lastFrameTime,    \* this.lastFrameTime
    animationTimer,   \* this.animationTimer
    frameClock,       \* timestamp of the latest requestAnimationFrame callback
    keysPressed,      \* this.keysPressed
    movementInterval, \* this.movementInterval (0 is the null handle)
    liveIntervals,    \* handles of setInterval timers not yet cleared
    last              \* the event handled by the latest step

connVars  == <<socks, isConnected, reconnectTimers, sent>>
storeVars == <<playerId, players, avatars, myPlayer, loadedAvatars>>
viewVars  == <<playerPositions, playerTargets, camera, lastFrameTime, animationTimer>>
inputVars == <<keysPressed, movementInterval, liveIntervals>>
vars == <<socks, isConnected, reconnectTimers, sent, playerId, players, avatars,
          myPlayer, loadedAvatars, playerPositions, playerTargets, camera, zoomLevel,
          canvas, lastFrameTime, animationTimer, frameClock, keysPressed, movementInterval,
          liveIntervals, last>>

-----------------------------------------------------------------------------
(* Bounds of the model *)

MaxSockets == 3
MaxSent == 3
TimeStep == 3000
MaxElapsed == 3000
canvasWidth == 800
canvasHeight == 600
MaxFrames == 32
FrameStep == 16
MantissaBits == 11

(* Program constants *)

worldWidth == 2048
worldHeight == 2048
reconnectDelay == 3000
lerpSpeedPct == 15
cameraEasingPct == 10
minZoom == 5
maxZoom == 30
zoomSpeed == 1
zoomKeyStep == 2
frameSpeed == 200
numFrames == 3

Null == "null"
NoPlayer == [id |-> Null]
EmptyMap == [i \in {} |-> 0]

ArrowKeys == {"ArrowUp", "ArrowDown", "ArrowLeft", "ArrowRight"}
\* variant: the horizontal keys listed first
keyPriorityHorizontalFirst == <<"ArrowLeft", "ArrowRight", "ArrowUp", "ArrowDown">>
keyPriority == <<"ArrowUp", "ArrowDown", "ArrowLeft", "ArrowRight">>
keyToDirection == [ArrowUp |-> "up", ArrowDown |-> "down", ArrowLeft |-> "left", ArrowRight |-> "right"]

-----------------------------------------------------------------------------
(* Arithmetic helpers *)

Max(a, b) == IF a >= b THEN a ELSE b
Min(a, b) == IF a <= b THEN a ELSE b

\* n / d rounded to the nearest integer, ties to even (d > 0)
RoundDiv(n, d) ==
    LET q == n \div d
        r == n % d
    IN  IF 2 * r < d THEN q
        ELSE IF 2 * r > d THEN q + 1
        ELSE IF q % 2 = 0 THEN q ELSE q + 1

RECURSIVE Pow2(_)
Pow2(n) == IF n = 0 THEN 1 ELSE 2 * Pow2(n - 1)

\* the spacing of the Numbers around magnitude a: the smallest power of two q
\* with a < 2^MantissaBits * q
RECURSIVE Quantum(_, _)
Quantum(a, q) == IF a < Pow2(MantissaBits) * q THEN q ELSE Quantum(a, 2 * q)

\* the result of a Number operation whose exact value is x: rounded to
\* MantissaBits significant bits, ties to even (a double keeps 53)
NumberRound(x) ==
    LET a == IF x < 0 THEN -x ELSE x
        r == RoundDiv(a, Quantum(a, 1)) * Quantum(a, 1)
    IN  IF x < 0 THEN -r ELSE r

\* { ...m } with key k removed
DeleteKey(m, k) == [i \in (DOMAIN m) \ {k} |-> m[i]]

\* variant: an existing key keeps its value
SetKeyIfAbsent(m, k, v) == [i \in (DOMAIN m) \cup {k} |-> IF i \in DOMAIN m THEN m[i] ELSE v]

\* m[k] = v
SetKey(m, k, v) == [i \in (DOMAIN m) \cup {k} |-> IF i = k THEN v ELSE m[i]]

\* variant: the spread written the other way round, { ...upd, ...old }
MergeReversed(old, upd) ==
    [f \in (DOMAIN old) \cup (DOMAIN upd) |-> IF f \in DOMAIN old THEN old[f] ELSE upd[f]]

\* { ...old, ...upd }
Merge(old, upd) ==
    [f \in (DOMAIN old) \cup (DOMAIN upd) |-> IF f \in DOMAIN upd THEN upd[f] ELSE old[f]]

\* the record kept in `last`: which event ran, its argument, and a flag of the pre-state
Event(e, a, f) == [ev |-> e, arg |-> a, flag |-> f]

-----------------------------------------------------------------------------
(* render(currentTime) : interpolation and camera (lines 113-181, 758-781). *)
(* this.worldImage is assigned in loadWorldMap during construction, so the  *)
(* early return of render at line 122 is never taken afterwards.            *)

XY(r) == [x |-> r.x, y |-> r.y]

\* variant: a factor of 1.15 in place of 0.15
LerpOvershoots(cur, tgt) == cur + RoundDiv((tgt - cur) * (100 + lerpSpeedPct), 100)

\* current += (target - current) * lerpSpeed
Lerp(cur, tgt) == cur + RoundDiv((tgt - cur) * lerpSpeedPct, 100)

\* variant: the target is set when the entity is first seen and never again
InterpolatedTargetsSetOnce(pl, pos, tgt) ==
    [i \in (DOMAIN tgt) \cup (DOMAIN pl) |->
        IF i \in DOMAIN pl
        THEN IF i \notin DOMAIN pos \/ i \notin DOMAIN tgt THEN XY(pl[i]) ELSE tgt[i]
        ELSE tgt[i]]

\* this.playerTargets after updatePlayerInterpolation.  The two maps are always
\* written together, so a position record without a target record does not occur.
InterpolatedTargets(pl, pos, tgt) ==
    [i \in (DOMAIN tgt) \cup (DOMAIN pl) |->
        IF i \in DOMAIN pl
        THEN LET t0 == IF i \notin DOMAIN pos \/ i \notin DOMAIN tgt THEN XY(pl[i]) ELSE tgt[i]
             IN  IF t0.x # pl[i].x \/ t0.y # pl[i].y THEN XY(pl[i]) ELSE t0
        ELSE tgt[i]]

\* this.playerPositions after updatePlayerInterpolation
InterpolatedPositions(pl, pos, tgt) ==
    [i \in (DOMAIN pos) \cup (DOMAIN pl) |->
        IF i \in DOMAIN pl
        THEN LET c0 == IF i \notin DOMAIN pos THEN XY(pl[i]) ELSE pos[i]
                 t  == InterpolatedTargets(pl, pos, tgt)[i]
             IN  [x |-> Lerp(c0.x, t.x), y |-> Lerp(c0.y, t.y)]
        ELSE pos[i]]

\* canvas dimension / zoomLevel
Visible(dim, zoom) == RoundDiv(dim * 10, zoom)

\* variant: the two clamps applied in the other order, min(max(0, eased), maxC)
CameraAxisClampsLowFirst(cam, p, dim, world, zoom) ==
    LET target == p - RoundDiv(Visible(dim, zoom), 2)
        eased  == cam + RoundDiv((target - cam) * cameraEasingPct, 100)
        maxC   == world - Visible(dim, zoom)
    IN  Min(Max(0, eased), maxC)

\* variant: the clamp to the world boundaries left out
CameraAxisNoClamp(cam, p, dim, world, zoom) ==
    LET target == p - RoundDiv(Visible(dim, zoom), 2)
    IN  cam + RoundDiv((target - cam) * cameraEasingPct, 100)

\* one axis of updateCameraSmooth: ease toward the centred target, then clamp
CameraAxis(cam, p, dim, world, zoom) ==
    LET target == p - RoundDiv(Visible(dim, zoom), 2)
        eased  == cam + RoundDiv((target - cam) * cameraEasingPct, 100)
        maxC   == world - Visible(dim, zoom)
    IN  Max(0, Min(eased, maxC))

\* variant: without a local player the camera eases toward the world's centre
UpdateCameraSmoothUnguarded(mine, pid, pos, cam, zoom, cv) ==
    LET playerPos == IF mine = NoPlayer THEN [x |-> worldWidth \div 2, y |-> worldHeight \div 2]
                     ELSE IF pid \in DOMAIN pos THEN pos[pid] ELSE XY(mine)
    IN  [x |-> CameraAxis(cam.x, playerPos.x, cv.width, worldWidth, zoom),
         y |-> CameraAxis(cam.y, playerPos.y, cv.height, worldHeight, zoom)]

UpdateCameraSmooth(mine, pid, pos, cam, zoom, cv) ==
    IF mine = NoPlayer THEN cam
    ELSE LET playerPos == IF pid \in DOMAIN pos THEN pos[pid] ELSE XY(mine)
         IN  [x |-> CameraAxis(cam.x, playerPos.x, cv.width, worldWidth, zoom),
              y |-> CameraAxis(cam.y, playerPos.y, cv.height, worldHeight, zoom)]

\* render(currentTime) run on the store the handler has just written
Render(currentTime, pl, pid, mine, pos, tgt, zoom, cv) ==
    /\ lastFrameTime' = currentTime
    /\ animationTimer' = NumberRound(animationTimer + NumberRound(currentTime - lastFrameTime))
    /\ playerTargets' = InterpolatedTargets(pl, pos, tgt)
    /\ playerPositions' = InterpolatedPositions(pl, pos, tgt)
    /\ camera' = UpdateCameraSmooth(mine, pid, playerPositions', camera, zoom, cv)

-----------------------------------------------------------------------------
(* drawPlayer: the frame and the frame set it selects (lines 230-252) *)

\* the % operator of JavaScript: the remainder has the sign of the dividend
JsRemainder(a, n) == IF a >= 0 THEN a % n ELSE -((-a) % n)

\* variant: the frame cycles whether or not the entity is moving
AnimationFrameAlwaysCycles(player, timer) == JsRemainder(timer \div frameSpeed, numFrames)

\* animationFrame: 0, or Math.floor(animationTimer / frameSpeed) % numFrames when moving
AnimationFrameOf(player, timer) ==
    IF "isMoving" \in DOMAIN player /\ player.isMoving
    THEN JsRemainder(timer \div frameSpeed, numFrames)
    ELSE 0

\* variant: west keeps its own frame set and is not mirrored
ResolveFacingNoMirror(player) ==
    [direction |-> IF "facing" \in DOMAIN player THEN player.facing ELSE "south",
     flipHorizontal |-> FALSE]

\* direction and flipHorizontal: player.facing || 'south', west drawn as mirrored east
ResolveFacing(player) ==
    LET direction == IF "facing" \in DOMAIN player THEN player.facing ELSE "south"
    IN  IF direction = "west"
        THEN [direction |-> "east", flipHorizontal |-> TRUE]
        ELSE [direction |-> direction, flipHorizontal |-> FALSE]

-----------------------------------------------------------------------------
(* Outbound messages (lines 350-364, 589-641) *)

JoinMessage == [action |-> "join_game", username |-> "Mike"]
MoveMessage(d) == [action |-> "move", direction |-> d]
StopMessage == [action |-> "stop"]
ClickMessage(x, y) == [action |-> "move", x |-> x, y |-> y]

\* joinGame(): the messages it hands to socket.send
JoinGame(conn) == IF ~conn THEN <<>> ELSE <<JoinMessage>>

SendMoveCommand(key, conn) ==
    IF ~conn THEN <<>>
    ELSE IF key \in DOMAIN keyToDirection THEN <<MoveMessage(keyToDirection[key])>>
    ELSE <<>>

SendMoveCommandForActiveKeys(keys, conn) ==
    IF ~conn THEN <<>>
    ELSE LET active == {i \in 1..Len(keyPriority) : keys[keyPriority[i]]}
         IN  IF active = {} THEN <<>>
             ELSE SendMoveCommand(keyPriority[CHOOSE i \in active : \A j \in active : i <= j], conn)

\* variant: the isConnected check left out
SendStopCommandUnguarded(conn) == <<StopMessage>>

SendStopCommand(conn) == IF ~conn THEN <<>> ELSE <<StopMessage>>

\* setInterval returns a handle that no live timer has; handles are positive
FreshHandle(live) == CHOOSE h \in 1..(Cardinality(live) + 1) : h \notin live

\* variant: no check of the handle, a timer is started on every call
StartContinuousMovementUnguarded(keys, conn, handle, live) ==
    [out |-> SendMoveCommandForActiveKeys(keys, conn),
     handle |-> FreshHandle(live),
     live |-> live \cup {FreshHandle(live)}]

StartContinuousMovement(keys, conn, handle, live) ==
    IF handle # 0
    THEN [out |-> <<>>, handle |-> handle, live |-> live]
    ELSE [out |-> SendMoveCommandForActiveKeys(keys, conn),
          handle |-> FreshHandle(live),
          live |-> live \cup {FreshHandle(live)}]

\* variant: the handle is cleared without clearInterval
StopContinuousMovementNoClear(conn, handle, live) ==
    [out |-> SendStopCommand(conn), handle |-> 0, live |-> live]

StopContinuousMovement(conn, handle, live) ==
    [out |-> SendStopCommand(conn),
     handle |-> 0,
     live |-> IF handle # 0 THEN live \ {handle} ELSE live]

-----------------------------------------------------------------------------
(* Keyboard and pointer input (lines 521-587, 657-686) *)

\* variant: no check of the key map, and a move sent for every key-down event
HandleKeyDownSendsEachEvent(k, keys, conn, handle, live) ==
    LET keys2 == [keys EXCEPT ![k] = TRUE]
        st    == StartContinuousMovement(keys2, conn, handle, live)
    IN  [keys |-> keys2, out |-> SendMoveCommand(k, conn) \o st.out,
         handle |-> st.handle, live |-> st.live]

\* handleKeyDown for an arrow key: the new key map, timer state and messages sent
HandleKeyDown(k, keys, conn, handle, live) ==
    IF keys[k]
    THEN [keys |-> keys, out |-> <<>>, handle |-> handle, live |-> live]
    ELSE LET keys2 == [keys EXCEPT ![k] = TRUE]
             st    == StartContinuousMovement(keys2, conn, handle, live)
         IN  [keys |-> keys2, out |-> st.out, handle |-> st.handle, live |-> st.live]

\* variant: any key-up stops the loop, whether or not another key is held
HandleKeyUpStopsAlways(k, keys, conn, handle, live) ==
    LET keys2 == [keys EXCEPT ![k] = FALSE]
        st == StopContinuousMovement(conn, handle, live)
    IN  [keys |-> keys2, out |-> st.out, handle |-> st.handle, live |-> st.live]

\* handleKeyUp for an arrow key
HandleKeyUp(k, keys, conn, handle, live) ==
    LET keys2 == [keys EXCEPT ![k] = FALSE]
        anyKeyPressed == \E j \in DOMAIN keys2 : keys2[j]
        st == StopContinuousMovement(conn, handle, live)
    IN  IF ~anyKeyPressed
        THEN [keys |-> keys2, out |-> st.out, handle |-> st.handle, live |-> st.live]
        ELSE [keys |-> keys2, out |-> <<>>, handle |-> handle, live |-> live]

\* variant: the world coordinate rounded to the nearest integer instead of floored
HandleCanvasClickRounds(cx, cy, conn, mine, cam, zoom) ==
    IF ~conn \/ mine = NoPlayer THEN <<>>
    ELSE LET worldX == RoundDiv(cx * 10, zoom) + cam.x
             worldY == RoundDiv(cy * 10, zoom) + cam.y
             targetX == Max(0, Min(worldX, worldWidth))
             targetY == Max(0, Min(worldY, worldHeight))
         IN  <<ClickMessage(targetX, targetY)>>

\* handleCanvasClick: the messages it sends for a click at canvas point (cx, cy)
HandleCanvasClick(cx, cy, conn, mine, cam, zoom) ==
    IF ~conn \/ mine = NoPlayer THEN <<>>
    ELSE LET worldX == ((cx * 10) \div zoom) + cam.x
             worldY == ((cy * 10) \div zoom) + cam.y
             targetX == Max(0, Min(worldX, worldWidth))
             targetY == Max(0, Min(worldY, worldHeight))
         IN  <<ClickMessage(targetX, targetY)>>

\* this.socket.send for each message of out, within the bound of the log
Transmit(out) ==
    /\ Len(sent) + Len(out) <= MaxSent
    /\ sent' = sent \o out

KeyDown(k) ==
    LET r == HandleKeyDown(k, keysPressed, isConnected, movementInterval, liveIntervals)
    IN  /\ Transmit(r.out)
        /\ keysPressed' = r.keys
        /\ movementInterval' = r.handle
        /\ liveIntervals' = r.live
        /\ last' = Event("keydown", "", keysPressed[k])
        /\ UNCHANGED <<socks, isConnected, reconnectTimers, storeVars, viewVars,
                       zoomLevel, canvas, frameClock>>

KeyUp(k) ==
    LET r == HandleKeyUp(k, keysPressed, isConnected, movementInterval, liveIntervals)
    IN  /\ Transmit(r.out)
        /\ keysPressed' = r.keys
        /\ movementInterval' = r.handle
        /\ liveIntervals' = r.live
        /\ last' = Event("keyup", "", keysPressed[k])
        /\ UNCHANGED <<socks, isConnected, reconnectTimers, storeVars, viewVars,
                       zoomLevel, canvas, frameClock>>

\* variant: a tick that finds the session disconnected cancels the timer
MovementTickStopsOffline(h) ==
    /\ h \in liveIntervals
    /\ Transmit(SendMoveCommandForActiveKeys(keysPressed, isConnected))
    /\ last' = Event("tick", "", isConnected)
    /\ movementInterval' = IF isConnected THEN movementInterval ELSE 0
    /\ liveIntervals' = IF isConnected THEN liveIntervals ELSE {}
    /\ UNCHANGED <<socks, isConnected, reconnectTimers, storeVars, viewVars,
                   zoomLevel, canvas, frameClock, keysPressed>>

\* the setInterval callback of startContinuousMovement (lines 573-575)
MovementTick(h) ==
    /\ h \in liveIntervals
    /\ Transmit(SendMoveCommandForActiveKeys(keysPressed, isConnected))
    /\ last' = Event("tick", "", isConnected)
    /\ UNCHANGED <<socks, isConnected, reconnectTimers, storeVars, viewVars,
                   zoomLevel, canvas, frameClock, inputVars>>

\* variant: a click cancels the keyboard movement loop
CanvasClickStopsLoop(cx, cy) ==
    /\ Transmit(HandleCanvasClick(cx, cy, isConnected, myPlayer, camera, zoomLevel))
    /\ last' = Event("click", "", isConnected)
    /\ movementInterval' = 0
    /\ liveIntervals' = {}
    /\ UNCHANGED <<socks, isConnected, reconnectTimers, storeVars, viewVars,
                   zoomLevel, canvas, frameClock, keysPressed>>

CanvasClick(cx, cy) ==
    /\ Transmit(HandleCanvasClick(cx, cy, isConnected, myPlayer, camera, zoomLevel))
    /\ last' = Event("click", "", isConnected)
    /\ UNCHANGED <<socks, isConnected, reconnectTimers, storeVars, viewVars,
                   zoomLevel, canvas, frameClock, inputVars>>

-----------------------------------------------------------------------------
(* Connection lifecycle (lines 318-348) *)

NewTimer(delay) == [delay |-> delay, elapsed |-> 0]

\* variant: setTimeout called without the delay
OnCloseNoDelay(timers) == Append(timers, NewTimer(0))

\* socket.onclose: the reconnect timers after the handler
OnClose(timers) == Append(timers, NewTimer(reconnectDelay))

\* variant: onerror schedules a reconnect as onclose does
OnErrorReconnects(timers) == Append(timers, NewTimer(reconnectDelay))

\* socket.onerror: the reconnect timers after the handler (it only logs)
OnError(timers) == timers

\* variant: onopen without the call of joinGame()
OnOpenNoJoin == <<>>

\* socket.onopen: isConnected = true, then joinGame()
OnOpen == JoinGame(TRUE)

Live(i) == socks[i] \in {"connecting", "open"}

\* the transport of socket i opens
TransportOpen(i) ==
    /\ socks[i] = "connecting"
    /\ socks' = [socks EXCEPT ![i] = "open"]
    /\ isConnected' = TRUE
    /\ Transmit(OnOpen)
    /\ last' = Event("open", "", isConnected)
    /\ UNCHANGED <<reconnectTimers, storeVars, viewVars, zoomLevel, canvas, frameClock, inputVars>>

\* the transport of socket i closes normally: the close event alone
TransportClose(i) ==
    /\ Live(i)
    /\ socks' = [socks EXCEPT ![i] = "closed"]
    /\ isConnected' = FALSE
    /\ reconnectTimers' = OnClose(reconnectTimers)
    /\ last' = Event("close", "", isConnected)
    /\ UNCHANGED <<sent, storeVars, viewVars, zoomLevel, canvas, frameClock, inputVars>>

\* the transport of socket i fails: the error event, then the close event, in one task
TransportFail(i) ==
    /\ Live(i)
    /\ socks' = [socks EXCEPT ![i] = "closed"]
    /\ isConnected' = FALSE
    /\ reconnectTimers' = OnClose(OnError(reconnectTimers))
    /\ last' = Event("error", "", isConnected)
    /\ UNCHANGED <<sent, storeVars, viewVars, zoomLevel, canvas, frameClock, inputVars>>

\* time passes while a reconnect timer is pending
AdvanceTime ==
    /\ \E j \in 1..Len(reconnectTimers) : reconnectTimers[j].elapsed < MaxElapsed
    /\ reconnectTimers' = [j \in 1..Len(reconnectTimers) |->
            [reconnectTimers[j] EXCEPT !.elapsed = Min(@ + TimeStep, MaxElapsed)]]
    /\ last' = Event("time", "", isConnected)
    /\ UNCHANGED <<socks, isConnected, sent, storeVars, viewVars, zoomLevel, canvas, frameClock,
                   inputVars>>

RemoveAt(q, j) == [i \in 1..(Len(q) - 1) |-> IF i < j THEN q[i] ELSE q[i + 1]]

\* variant: the client gives up after its first retry
ReconnectFireOnce(j) ==
    /\ j \in 1..Len(reconnectTimers)
    /\ reconnectTimers[j].elapsed >= reconnectTimers[j].delay
    /\ Len(socks) < 2
    /\ socks' = Append(socks, "connecting")
    /\ sent' = <<>>
    /\ reconnectTimers' = RemoveAt(reconnectTimers, j)
    /\ last' = Event("reconnect", "", isConnected)
    /\ UNCHANGED <<isConnected, storeVars, viewVars, zoomLevel, canvas, frameClock, inputVars>>

\* a reconnect timer fires: connectToServer() creates the next WebSocket
ReconnectFire(j) ==
    /\ j \in 1..Len(reconnectTimers)
    /\ reconnectTimers[j].elapsed >= reconnectTimers[j].delay
    /\ Len(socks) < MaxSockets
    /\ socks' = Append(socks, "connecting")
    /\ sent' = <<>>
    /\ reconnectTimers' = RemoveAt(reconnectTimers, j)
    /\ last' = Event("reconnect", "", isConnected)
    /\ UNCHANGED <<isConnected, storeVars, viewVars, zoomLevel, canvas, frameClock, inputVars>>

-----------------------------------------------------------------------------
(* World state store (lines 366-480) *)

\* handlePlayersMove, lines 412-416: this.players after the merge loop
MergePlayers(pl, upd) ==
    [i \in DOMAIN pl |-> IF i \in DOMAIN upd THEN Merge(pl[i], upd[i]) ELSE pl[i]]

\* handlePlayersMove, lines 419-421: this.myPlayer after the refresh
RefreshMyPlayer(pid, pl, mine) ==
    IF pid # Null /\ pid \in DOMAIN pl THEN pl[pid] ELSE mine

\* variant: the delete of this.playerTargets[p] left out
HandlePlayerLeftKeepsTarget(p, pl, pos, tgt) ==
    [players |-> DeleteKey(pl, p), positions |-> DeleteKey(pos, p), targets |-> tgt]

\* handlePlayerLeft, lines 438-440: the three maps after the deletes
HandlePlayerLeft(p, pl, pos, tgt) ==
    [players |-> DeleteKey(pl, p), positions |-> DeleteKey(pos, p), targets |-> DeleteKey(tgt, p)]

\* this.players[this.playerId], undefined when the key is missing
Lookup(pl, pid) == IF pid \in DOMAIN pl THEN pl[pid] ELSE NoPlayer

SomeOpen == \E i \in 1..Len(socks) : socks[i] = "open"

\* variant: the snapshot is merged into the store instead of replacing it
JoinGameSuccessMerges(m) ==
    /\ playerId' = m.playerId
    /\ players' = [i \in (DOMAIN players) \cup (DOMAIN m.players) |->
                      IF i \in DOMAIN m.players THEN m.players[i] ELSE players[i]]
    /\ avatars' = [n \in (DOMAIN avatars) \cup (DOMAIN m.avatars) |->
                      IF n \in DOMAIN m.avatars THEN m.avatars[n] ELSE avatars[n]]
    /\ myPlayer' = Lookup(players', m.playerId)
    /\ loadedAvatars' = loadedAvatars \cup DOMAIN m.avatars
    /\ Render(0, players', playerId', myPlayer', playerPositions, playerTargets, zoomLevel, canvas)

\* join_game with success: handleJoinGameSuccess, loadAvatarImages, render()
JoinGameSuccess(m) ==
    /\ playerId' = m.playerId
    /\ players' = m.players
    /\ avatars' = m.avatars
    /\ myPlayer' = Lookup(m.players, m.playerId)
    /\ loadedAvatars' = loadedAvatars \cup DOMAIN m.avatars
    /\ Render(0, players', playerId', myPlayer', playerPositions, playerTargets, zoomLevel, canvas)

\* variant: a rejected join resets the identity and the entity store
JoinGameFailureResets(m) ==
    /\ playerId' = Null
    /\ players' = EmptyMap
    /\ myPlayer' = NoPlayer
    /\ UNCHANGED <<avatars, loadedAvatars, viewVars>>

\* join_game without success: logged only
JoinGameFailure(m) ==
    UNCHANGED <<storeVars, viewVars>>

PlayersMoved(m) ==
    /\ players' = MergePlayers(players, m.players)
    /\ myPlayer' = RefreshMyPlayer(playerId, players', myPlayer)
    /\ UNCHANGED <<playerId, avatars, loadedAvatars>>
    /\ Render(0, players', playerId, myPlayer', playerPositions, playerTargets, zoomLevel, canvas)

PlayerJoined(m) ==
    /\ players' = SetKey(players, m.player.id, m.player)
    /\ avatars' = IF "avatar" \in DOMAIN m THEN SetKey(avatars, m.avatar.name, m.avatar)
                  ELSE avatars
    /\ UNCHANGED <<playerId, myPlayer, loadedAvatars>>
    /\ Render(0, players', playerId, myPlayer, playerPositions, playerTargets, zoomLevel, canvas)

\* handlePlayerLeft: the deletes, then render() on what is left
PlayerLeft(m) ==
    LET r == HandlePlayerLeft(m.playerId, players, playerPositions, playerTargets)
    IN  /\ players' = r.players
        /\ UNCHANGED <<playerId, avatars, myPlayer, loadedAvatars>>
        /\ Render(0, players', playerId, myPlayer, r.positions, r.targets, zoomLevel, canvas)

\* variant: the default branch drops the entity store
HandleServerMessageDropsStore(m) ==
    CASE m.action = "join_game" -> IF m.success THEN JoinGameSuccess(m) ELSE JoinGameFailure(m)
      [] m.action = "players_moved" -> PlayersMoved(m)
      [] m.action = "player_joined" -> PlayerJoined(m)
      [] m.action = "player_left" -> PlayerLeft(m)
      [] OTHER -> /\ players' = EmptyMap
                  /\ myPlayer' = NoPlayer
                  /\ UNCHANGED <<playerId, avatars, loadedAvatars, viewVars>>

\* handleServerMessage: dispatch on message.action
HandleServerMessage(m) ==
    CASE m.action = "join_game" -> IF m.success THEN JoinGameSuccess(m) ELSE JoinGameFailure(m)
      [] m.action = "players_moved" -> PlayersMoved(m)
      [] m.action = "player_joined" -> PlayerJoined(m)
      [] m.action = "player_left" -> PlayerLeft(m)
      [] OTHER -> UNCHANGED <<storeVars, viewVars>>

\* socket.onmessage with a payload that decodes to m
Receive(m) ==
    /\ SomeOpen
    /\ HandleServerMessage(m)
    /\ last' = IF m.action = "player_left"
               THEN Event(m.action, m.playerId, m.playerId \in DOMAIN playerPositions)
               ELSE IF m.action = "join_game"
               THEN Event(m.action, IF m.success THEN "ok" ELSE "rejected", isConnected)
               ELSE Event(m.action, "", isConnected)
    /\ UNCHANGED <<connVars, zoomLevel, canvas, frameClock, inputVars>>

\* socket.onmessage with a payload JSON.parse rejects: logged and dropped
ReceiveMalformed ==
    /\ SomeOpen
    /\ last' = Event("malformed", "", isConnected)
    /\ UNCHANGED <<connVars, storeVars, viewVars, zoomLevel, canvas, frameClock, inputVars>>

\* the requestAnimationFrame callback: render(currentTime)
AnimationFrame(t) ==
    /\ t > frameClock
    /\ frameClock' = t
    /\ Render(t, players, playerId, myPlayer, playerPositions, playerTargets, zoomLevel, canvas)
    /\ last' = Event("frame", "", isConnected)
    /\ UNCHANGED <<connVars, storeVars, zoomLevel, canvas, inputVars>>

-----------------------------------------------------------------------------
(* Zoom and window events (lines 86-98, 499-519, 688-704) *)

\* variant: the wheel changes the zoom without the min / max limits
WheelZoomUnlimited(zoom, zoomIn) == IF zoomIn THEN zoom + zoomSpeed ELSE zoom - zoomSpeed

\* handleMouseWheel: the zoom level after a wheel event (deltaY < 0 zooms in)
WheelZoom(zoom, zoomIn) ==
    IF zoomIn THEN Min(zoom + zoomSpeed, maxZoom) ELSE Max(zoom - zoomSpeed, minZoom)

\* handleKeyboardShortcuts: the zoom level after a key-down of key k
ShortcutZoom(zoom, k) ==
    CASE k = "r" -> 10
      [] k \in {"+", "="} -> Min(zoom + zoomKeyStep, 30)
      [] k = "-" -> Max(zoom - zoomKeyStep, 5)
      [] OTHER -> zoom

\* the wheel event: the zoom changes, then render()
MouseWheel(zoomIn) ==
    /\ zoomLevel' = WheelZoom(zoomLevel, zoomIn)
    /\ Render(0, players, playerId, myPlayer, playerPositions, playerTargets, zoomLevel', canvas)
    /\ last' = Event("wheel", "", isConnected)
    /\ UNCHANGED <<connVars, storeVars, canvas, frameClock, inputVars>>

\* a key-down of a shortcut key: no render() follows
KeyboardShortcut(k) ==
    /\ zoomLevel' = ShortcutZoom(zoomLevel, k)
    /\ last' = Event("shortcut", k, isConnected)
    /\ UNCHANGED <<connVars, storeVars, viewVars, canvas, frameClock, inputVars>>

\* the window resize event: resizeCanvas(), then render()
ResizeCanvas(w, h) ==
    /\ canvas' = [width |-> w, height |-> h]
    /\ Render(0, players, playerId, myPlayer, playerPositions, playerTargets, zoomLevel, canvas')
    /\ last' = Event("resize", "", isConnected)
    /\ UNCHANGED <<connVars, storeVars, zoomLevel, frameClock, inputVars>>

-----------------------------------------------------------------------------
(* Inbound messages the server is taken to send *)

Entity(id, x, f, mv) ==
    [id |-> id, x |-> x, y |-> 300, facing |-> f, isMoving |-> mv, username |-> id,
     avatar |-> "a1"]

Catalog == [n \in {"a1"} |-> [name |-> n, frames |-> [south |-> <<"s0">>, east |-> <<"e0">>]]]

JoinOk(pid, ids) ==
    [action |-> "join_game", success |-> TRUE, playerId |-> pid,
     players |-> [i \in ids |-> Entity(i, 400, "south", FALSE)], avatars |-> Catalog]

JoinRejected == [action |-> "join_game", success |-> FALSE, error |-> "rejected"]

PlayersMovedMsg(upd) == [action |-> "players_moved", players |-> upd]

PlayerLeftMsg(p) == [action |-> "player_left", playerId |-> p]

PlayerJoinedMsg(p) == [action |-> "player_joined", player |-> Entity(p, 404, "south", FALSE)]

PlayerJoinedWithAvatar(p) ==
    [action |-> "player_joined", player |-> Entity(p, 404, "south", FALSE),
     avatar |-> [name |-> "a2", frames |-> [south |-> <<"s0">>, east |-> <<"e0">>]]]

\* the messages of the connection and input specification
ConnJoins == {JoinOk("p1", {"p1"}), JoinRejected}
ConnLeaves == {PlayerLeftMsg("p1")}
ConnUnknown == {[action |-> "chat", text |-> "hello"]}
ConnKeys == {"ArrowUp", "ArrowLeft"}
ClickPoints == {<<100, 50>>}

\* the messages of the store specification
Ids == {"p1", "p2"}
PartialUpdates == {[x |-> 404], [x |-> 400, isMoving |-> TRUE], [facing |-> "west", isMoving |-> FALSE]}
StoreJoins == {JoinOk("p1", {"p1"}), JoinOk("p1", Ids)}
StoreMoves == {PlayersMovedMsg(u) : u \in UNION {[S -> PartialUpdates] : S \in (SUBSET Ids) \ {{}}}}
StoreJoined == {PlayerJoinedMsg(p) : p \in Ids} \cup {PlayerJoinedWithAvatar("p2")}
StoreLeaves == {PlayerLeftMsg(p) : p \in Ids}
FrameTimes == {450}

-----------------------------------------------------------------------------
(* The state after the constructor: init() has called connectToServer() once *)

Init ==
    /\ socks = <<"connecting">>
    /\ isConnected = FALSE
    /\ reconnectTimers = <<>>
    /\ sent = <<>>
    /\ playerId = Null
    /\ players = EmptyMap
    /\ avatars = EmptyMap
    /\ myPlayer = NoPlayer
    /\ loadedAvatars = {}
    /\ playerPositions = EmptyMap
    /\ playerTargets = EmptyMap
    /\ camera = [x |-> 0, y |-> 0]
    /\ zoomLevel = 10
    /\ canvas = [width |-> canvasWidth, height |-> canvasHeight]
    /\ lastFrameTime = 0
    /\ animationTimer = 0
    /\ frameClock = 0
    /\ keysPressed = [k \in ArrowKeys |-> FALSE]
    /\ movementInterval = 0
    /\ liveIntervals = {}
    /\ last = Event("init", "", FALSE)

(* Connection and input: every transport, timer and input event, with the   *)
(* small message set above.                                                 *)
Next ==
    \/ \E i \in 1..Len(socks) : TransportOpen(i)
    \/ \E i \in 1..Len(socks) : TransportClose(i)
    \/ \E i \in 1..Len(socks) : TransportFail(i)
    \/ AdvanceTime
    \/ \E j \in 1..Len(reconnectTimers) : ReconnectFire(j)
    \/ \E m \in ConnJoins : Receive(m)
    \/ \E m \in ConnLeaves : Receive(m)
    \/ \E m \in ConnUnknown : Receive(m)
    \/ ReceiveMalformed
    \/ \E k \in ConnKeys : KeyDown(k)
    \/ \E k \in ConnKeys : KeyUp(k)
    \/ \E h \in liveIntervals : MovementTick(h)
    \/ \E pt \in ClickPoints : CanvasClick(pt[1], pt[2])

Spec == Init /\ [][Next]_vars

(* The same steps under the scheduling of the browser's timers: time passes *)
(* while a setTimeout callback is pending, and a callback that is due runs. *)
TimerFairness ==
    /\ WF_vars(AdvanceTime)
    /\ WF_vars(\E j \in 1..Len(reconnectTimers) : ReconnectFire(j))

SpecLive == Init /\ [][Next]_vars /\ TimerFairness

(* Click translation: handleCanvasClick applied in a joined session at every  *)
(* zoom level the zoom handlers can set and at camera positions from the      *)
(* origin to the largest clamp (zoom 3.0), for clicks at the corners and      *)
(* inside the canvas.                                                         *)
ZoomLevels == minZoom..maxZoom
ClickCameras ==
    {[x |-> 0, y |-> 0], [x |-> 600, y |-> 700],
     [x |-> worldWidth - canvasWidth, y |-> worldHeight - canvasHeight],
     [x |-> worldWidth - Visible(canvasWidth, maxZoom),
      y |-> worldHeight - Visible(canvasHeight, maxZoom)]}
CanvasPoints == {<<0, 0>>, <<100, 50>>, <<400, 300>>, <<canvasWidth - 1, canvasHeight - 1>>}

InitClick ==
    /\ socks = <<"open">>
    /\ isConnected = TRUE
    /\ reconnectTimers = <<>>
    /\ sent = <<JoinMessage>>
    /\ playerId = "p1"
    /\ players = JoinOk("p1", {"p1"}).players
    /\ avatars = Catalog
    /\ myPlayer = players["p1"]
    /\ loadedAvatars = DOMAIN Catalog
    /\ playerPositions = [i \in {"p1"} |-> XY(players[i])]
    /\ playerTargets = [i \in {"p1"} |-> XY(players[i])]
    /\ camera \in ClickCameras
    /\ zoomLevel \in ZoomLevels
    /\ canvas = [width |-> canvasWidth, height |-> canvasHeight]
    /\ lastFrameTime = 0
    /\ animationTimer = 0
    /\ frameClock = 0
    /\ keysPressed = [k \in ArrowKeys |-> FALSE]
    /\ movementInterval = 0
    /\ liveIntervals = {}
    /\ last = Event("join_game", "ok", TRUE)

NextClick == \E pt \in CanvasPoints : CanvasClick(pt[1], pt[2])

SpecClick == InitClick /\ [][NextClick]_vars

(* Camera and interpolation: one session at zoom 1 whose join response places *)
(* the local player inside the world, near its origin or near its far corner, *)
(* one later move of the player, and the display ticking every FrameStep ms.  *)
EntityAt(id, x, y) == [Entity(id, x, "south", FALSE) EXCEPT !.y = y]
JoinAt(x, y) ==
    [action |-> "join_game", success |-> TRUE, playerId |-> "p1",
     players |-> [i \in {"p1"} |-> EntityAt(i, x, y)], avatars |-> Catalog]
CameraJoins == {JoinAt(440, 340), JoinAt(100, 100), JoinAt(2040, 2040)}
CameraMoves == {PlayersMovedMsg([i \in {"p1"} |-> [x |-> 420, y |-> 330]])}

NextCamera ==
    \/ \E i \in 1..Len(socks) : TransportOpen(i)
    \/ \E m \in CameraJoins : playerId = Null /\ Receive(m)
    \/ \E m \in CameraMoves : Receive(m)
    \/ frameClock < MaxFrames * FrameStep /\ AnimationFrame(frameClock + FrameStep)

SpecCamera == Init /\ [][NextCamera]_vars

(* Zoom: one session whose join response places the local player near the    *)
(* world's origin, with every zoom event and the window resized between the  *)
(* initial size and one wider than the world.                                *)
ZoomJoins == {JoinAt(100, 100)}
ShortcutKeys == {"r", "+", "=", "-"}
WindowSizes == {<<canvasWidth, canvasHeight>>, <<2560, 1440>>}

NextZoom ==
    \/ \E i \in 1..Len(socks) : TransportOpen(i)
    \/ \E m \in ZoomJoins : playerId = Null /\ Receive(m)
    \/ \E zoomIn \in BOOLEAN : MouseWheel(zoomIn)
    \/ \E k \in ShortcutKeys : KeyboardShortcut(k)
    \/ \E sz \in WindowSizes : ResizeCanvas(sz[1], sz[2])

SpecZoom == Init /\ [][NextZoom]_vars

(* Camera clamp: updateCameraSmooth applied by one display tick in a joined  *)
(* session, at every zoom level, both window sizes, the camera positions of  *)
(* the click specification and three places of the local player.             *)
ClampPlaces == {<<1500, 1000>>, <<100, 100>>, <<2040, 2040>>}

InitClamp ==
    /\ socks = <<"open">>
    /\ isConnected = TRUE
    /\ reconnectTimers = <<>>
    /\ sent = <<JoinMessage>>
    /\ playerId = "p1"
    /\ \E pl \in ClampPlaces : players = JoinAt(pl[1], pl[2]).players
    /\ avatars = Catalog
    /\ myPlayer = players["p1"]
    /\ loadedAvatars = DOMAIN Catalog
    /\ playerPositions = [i \in {"p1"} |-> XY(players[i])]
    /\ playerTargets = [i \in {"p1"} |-> XY(players[i])]
    /\ camera \in ClickCameras
    /\ zoomLevel \in ZoomLevels
    /\ \E sz \in WindowSizes : canvas = [width |-> sz[1], height |-> sz[2]]
    /\ lastFrameTime = 0
    /\ animationTimer = 0
    /\ frameClock = 0
    /\ keysPressed = [k \in ArrowKeys |-> FALSE]
    /\ movementInterval = 0
    /\ liveIntervals = {}
    /\ last = Event("join_game", "ok", TRUE)

NextClamp == \E t \in FrameTimes : AnimationFrame(t)

SpecClamp == InitClamp /\ [][NextClamp]_vars

(* Drawing: a joined session whose local player has each facing, or none,   *)
(* moving or not, drawn by the display ticking every FrameStep ms and at the *)
(* times of FrameTimes.                                                      *)
Facings == {"north", "south", "east", "west"}
DrawEntities ==
    {[Entity("p1", 400, f, mv) EXCEPT !.username = "Mike"] : f \in Facings, mv \in BOOLEAN}
    \cup {[id |-> "p1", x |-> 400, y |-> 300, isMoving |-> mv, username |-> "Mike",
           avatar |-> "a1"] : mv \in BOOLEAN}

InitDraw ==
    /\ socks = <<"open">>
    /\ isConnected = TRUE
    /\ reconnectTimers = <<>>
    /\ sent = <<JoinMessage>>
    /\ playerId = "p1"
    /\ \E e \in DrawEntities : players = [i \in {"p1"} |-> e]
    /\ avatars = Catalog
    /\ myPlayer = players["p1"]
    /\ loadedAvatars = DOMAIN Catalog
    /\ playerPositions = [i \in {"p1"} |-> XY(players[i])]
    /\ playerTargets = [i \in {"p1"} |-> XY(players[i])]
    /\ camera = [x |-> 0, y |-> 0]
    /\ zoomLevel = 10
    /\ canvas = [width |-> canvasWidth, height |-> canvasHeight]
    /\ lastFrameTime = 0
    /\ animationTimer = 0
    /\ frameClock = 0
    /\ keysPressed = [k \in ArrowKeys |-> FALSE]
    /\ movementInterval = 0
    /\ liveIntervals = {}
    /\ last = Event("join_game", "ok", TRUE)

NextDraw ==
    \/ frameClock < MaxFrames * FrameStep /\ AnimationFrame(frameClock + FrameStep)
    \/ \E t \in FrameTimes : AnimationFrame(t)

SpecDraw == InitDraw /\ [][NextDraw]_vars

(* Animation clock: a joined session with a moving player, display ticks at *)
(* timestamps either side of the first magnitude at which the Numbers are   *)
(* spaced 2 apart, and the wheel and resize events, whose render() passes   *)
(* no timestamp.  Every timestamp is itself a Number.                       *)
TimerTimes ==
    {1, 3, Pow2(MantissaBits) - 2, Pow2(MantissaBits) + 2, Pow2(MantissaBits) + 6,
     2 * Pow2(MantissaBits) + 4}

InitTimer ==
    /\ socks = <<"open">>
    /\ isConnected = TRUE
    /\ reconnectTimers = <<>>
    /\ sent = <<JoinMessage>>
    /\ playerId = "p1"
    /\ players = [i \in {"p1"} |-> [EntityAt(i, 100, 100) EXCEPT !.isMoving = TRUE]]
    /\ avatars = Catalog
    /\ myPlayer = players["p1"]
    /\ loadedAvatars = DOMAIN Catalog
    /\ playerPositions = [i \in {"p1"} |-> XY(players[i])]
    /\ playerTargets = [i \in {"p1"} |-> XY(players[i])]
    /\ camera = [x |-> 0, y |-> 0]
    /\ zoomLevel = 10
    /\ canvas = [width |-> canvasWidth, height |-> canvasHeight]
    /\ lastFrameTime = 0
    /\ animationTimer = 0
    /\ frameClock = 0
    /\ keysPressed = [k \in ArrowKeys |-> FALSE]
    /\ movementInterval = 0
    /\ liveIntervals = {}
    /\ last = Event("join_game", "ok", TRUE)

NextTimer ==
    \/ \E t \in TimerTimes : AnimationFrame(t)
    \/ \E zoomIn \in BOOLEAN : MouseWheel(zoomIn)
    \/ \E sz \in WindowSizes : ResizeCanvas(sz[1], sz[2])

SpecTimer == InitTimer /\ [][NextTimer]_vars

(* Store: one session that stays open, with the full message set and the    *)
(* display tick.                                                            *)
NextStore ==
    \/ \E i \in 1..Len(socks) : TransportOpen(i)
    \/ \E m \in StoreJoins : Receive(m)
    \/ \E m \in StoreMoves : Receive(m)
    \/ \E m \in StoreJoined : Receive(m)
    \/ \E m \in StoreLeaves : Receive(m)
    \/ \E t \in FrameTimes : AnimationFrame(t)

SpecStore == Init /\ [][NextStore]_vars

-----------------------------------------------------------------------------
(* Properties *)

InputEvents == {"keydown", "keyup", "tick", "click"}
NoKeyPressed(keys) == \A k \in ArrowKeys : ~keys[k]

\* the direction the priority order Up > Down > Left > Right selects
PriorityDirection(keys) ==
    IF keys["ArrowUp"] THEN "up"
    ELSE IF keys["ArrowDown"] THEN "down"
    ELSE IF keys["ArrowLeft"] THEN "left"
    ELSE "right"

\* a step in which the movement loop emits: its start, or one tick of its timer
LoopEmits == (movementInterval = 0 /\ movementInterval' # 0) \/ last'.ev = "tick"

\* a step that releases the last held key while the loop is running
LastKeyReleased ==
    /\ last'.ev = "keyup"
    /\ movementInterval # 0
    /\ ~NoKeyPressed(keysPressed)
    /\ NoKeyPressed(keysPressed')

\* C1: a players_moved message changes, for each id it names that is in the
\* store, exactly the supplied fields and keeps every other field; it creates
\* no entity; it leaves the entities it does not name unchanged.
C1_PartialUpdateMerges ==
    [][\A m \in StoreMoves : Receive(m) =>
        /\ DOMAIN players' = DOMAIN players
        /\ \A i \in DOMAIN players :
              IF i \in DOMAIN m.players
              THEN /\ DOMAIN players'[i] = (DOMAIN players[i]) \cup (DOMAIN m.players[i])
                   /\ \A f \in DOMAIN m.players[i] : players'[i][f] = m.players[i][f]
                   /\ \A f \in (DOMAIN players[i]) \ (DOMAIN m.players[i]) :
                         players'[i][f] = players[i][f]
              ELSE players'[i] = players[i]]_vars

C1_Witness ==
    /\ last.ev = "players_moved"
    /\ DOMAIN players = {"p1"}
    /\ players["p1"].x = 404
    /\ players["p1"].facing = "west"
    /\ players["p1"].isMoving = TRUE

\* C2: after player_left for id p, p is in none of the entity store, the
\* interpolated-position map and the target map, and every other entity's
\* record is as before.
C2_PlayerLeftRemovesAll ==
    [][\A p \in Ids : Receive(PlayerLeftMsg(p)) =>
        /\ p \notin DOMAIN players'
        /\ p \notin DOMAIN playerPositions'
        /\ p \notin DOMAIN playerTargets'
        /\ DOMAIN players' = (DOMAIN players) \ {p}
        /\ \A q \in DOMAIN players' : players'[q] = players[q]]_vars

C2_Witness ==
    /\ last = Event("player_left", "p2", TRUE)
    /\ DOMAIN players = {"p1"}
    /\ DOMAIN playerPositions = {"p1"}
    /\ DOMAIN playerTargets = {"p1"}

\* C3: every closure schedules exactly one reconnect attempt, so the closures
\* so far equal the attempts made plus the attempts pending, and an attempt is
\* made only by a timer that has waited 3000 ms.
C3_OneReconnectPerClosure ==
    /\ [](Cardinality({i \in 1..Len(socks) : socks[i] = "closed"})
            = (Len(socks) - 1) + Len(reconnectTimers))
    /\ [][/\ last'.ev \in {"close", "error"} => Len(reconnectTimers') = Len(reconnectTimers) + 1
          /\ Len(socks') > Len(socks) =>
                /\ Len(socks') = Len(socks) + 1
                /\ \E j \in 1..Len(reconnectTimers) :
                      /\ reconnectTimers[j].elapsed >= 3000
                      /\ reconnectTimers' = RemoveAt(reconnectTimers, j)]_vars

C3_Witness ==
    /\ Len(socks) = 3
    /\ \A i \in 1..3 : socks[i] = "closed"
    /\ Len(reconnectTimers) = 1

\* C4: whenever the session is not connected, playerId is null.
C4_PlayerIdNullWhenDisconnected == ~isConnected => playerId = Null

\* C5: while the session is not connected, a key, timer or click event
\* transmits nothing, and when a transport opens the join request is the only
\* message transmitted (nothing was queued).
C5_NoSendWhileDisconnected ==
    [][/\ (~isConnected /\ last'.ev \in InputEvents) => sent' = sent
       /\ last'.ev = "open" => sent' = <<JoinMessage>>]_vars

C5_Witness ==
    /\ last = Event("keyup", "", TRUE)
    /\ ~isConnected
    /\ NoKeyPressed(keysPressed)
    /\ movementInterval = 0
    /\ Len(socks) = 2
    /\ sent = <<>>

\* C6 as stated: every emission of the running loop sends exactly one move,
\* for the highest-priority pressed key.
C6_EveryEmissionSendsPriorityMove ==
    [][LoopEmits => sent' = Append(sent, MoveMessage(PriorityDirection(keysPressed')))]_vars

\* C6 amended: while connected, every emission of the running loop sends
\* exactly one move, for the highest-priority pressed key; while not connected
\* an emission sends nothing.
C6_ConnectedEmissionSendsPriorityMove ==
    [][LoopEmits =>
        IF isConnected
        THEN sent' = Append(sent, MoveMessage(PriorityDirection(keysPressed')))
        ELSE sent' = sent]_vars

C6_Witness ==
    /\ last.ev = "tick"
    /\ isConnected
    /\ keysPressed["ArrowUp"] /\ keysPressed["ArrowLeft"]
    /\ sent = <<JoinMessage, MoveMessage("up")>>

\* C7 as stated: releasing the last held key while the loop runs emits exactly
\* one stop and halts the timer; with no key held no timer is left to emit.
C7_LastReleaseSendsStop ==
    /\ [](NoKeyPressed(keysPressed) => liveIntervals = {} /\ movementInterval = 0)
    /\ [][LastKeyReleased =>
            /\ sent' = Append(sent, StopMessage)
            /\ movementInterval' = 0
            /\ liveIntervals' = {}]_vars

\* C7 amended: releasing the last held key while the loop runs halts the
\* timer, and emits exactly one stop if the session is connected and nothing
\* otherwise; with no key held no timer is left to emit.
C7_LastReleaseHaltsLoop ==
    /\ [](NoKeyPressed(keysPressed) => liveIntervals = {} /\ movementInterval = 0)
    /\ [][LastKeyReleased =>
            /\ sent' = IF isConnected THEN Append(sent, StopMessage) ELSE sent
            /\ movementInterval' = 0
            /\ liveIntervals' = {}]_vars

C7_Witness ==
    /\ last = Event("keyup", "", TRUE)
    /\ isConnected
    /\ NoKeyPressed(keysPressed)
    /\ liveIntervals = {}
    /\ sent = <<JoinMessage, StopMessage>>

\* C8: a key-down for a key already recorded as pressed changes nothing, and
\* the loop is started only by a key-down for a key that was released.
C8_KeyRepeatIsNoOp ==
    [][/\ (last'.ev = "keydown" /\ last'.flag) =>
            UNCHANGED <<connVars, storeVars, viewVars, zoomLevel, canvas, frameClock, inputVars>>
       /\ (movementInterval = 0 /\ movementInterval' # 0) =>
            (last'.ev = "keydown" /\ ~last'.flag)]_vars

C8_Witness ==
    /\ last = Event("keydown", "", TRUE)
    /\ isConnected
    /\ movementInterval # 0
    /\ keysPressed["ArrowLeft"]

\* C9: at most one transport is connecting or open, and a transport is created
\* only by a reconnect timer firing when every earlier transport has closed.
C9_AtMostOneTransport ==
    /\ [](Cardinality({i \in 1..Len(socks) : Live(i)}) <= 1)
    /\ [][Len(socks') > Len(socks) =>
            /\ last'.ev = "reconnect"
            /\ \A i \in 1..Len(socks) : socks[i] = "closed"]_vars

C9_Witness ==
    /\ Len(socks) = 3
    /\ socks[3] = "open"
    /\ last.ev = "open"

\* C10: the join request is the first message of every session, is sent in
\* the step in which the transport opens, and is sent once.
C10_JoinSentOnceOnOpen ==
    /\ [](/\ isConnected => (sent # <<>> /\ sent[1] = JoinMessage)
          /\ \A n \in 2..Len(sent) : sent[n] # JoinMessage
          /\ socks[Len(socks)] = "connecting" => sent = <<>>)
    /\ [][last'.ev = "open" => (sent = <<>> /\ sent' = <<JoinMessage>>)]_vars

C10_Witness ==
    /\ Len(socks) = 2
    /\ isConnected
    /\ sent = <<JoinMessage, StopMessage>>

\* C11: reconnection never stops.  Every reconnect timer waits the same 3000
\* ms, however many closures came before, and once the latest transport has
\* closed a further transport is eventually created, for every number of
\* earlier closures the model admits.
C11_ReconnectPerpetual ==
    /\ [](\A j \in 1..Len(reconnectTimers) : reconnectTimers[j].delay = 3000)
    /\ \A n \in 1..(MaxSockets - 1) :
          (Len(socks) = n /\ socks[n] = "closed") ~> (Len(socks) > n)

C11_Witness ==
    /\ last.ev = "reconnect"
    /\ Len(socks) = 3
    /\ socks[1] = "closed" /\ socks[2] = "closed"
    /\ socks[3] = "connecting"
    /\ reconnectTimers = <<>>

\* C12: a payload that does not decode, or a message whose action is not one
\* of the four known ones, leaves the entity store, the avatar catalog,
\* playerId, the local player pointer and the connection state as they were,
\* and the session goes on receiving: a later message is still handled.
C12_BadMessageChangesNothing ==
    /\ [][last'.ev \in {"malformed", "chat"} =>
            UNCHANGED <<players, avatars, playerId, myPlayer, loadedAvatars, connVars>>]_vars
    /\ [](last.ev \in {"malformed", "chat"} =>
            /\ isConnected
            /\ ENABLED (\E m \in ConnJoins : Receive(m)))

C12_Witness ==
    /\ last.ev = "chat"
    /\ isConnected
    /\ playerId = "p1"
    /\ "p1" \in DOMAIN players
    /\ myPlayer = players["p1"]
    /\ DOMAIN avatars = {"a1"}
    /\ sent = <<JoinMessage, MoveMessage("up")>>

\* C13: a join_game response without success changes no state of the client,
\* and no second join request is sent in that session.
C13_RejectedJoinAppliesNothing ==
    /\ [][(last'.ev = "join_game" /\ last'.arg = "rejected") =>
            UNCHANGED <<storeVars, viewVars, connVars, inputVars>>]_vars
    /\ [](Cardinality({n \in 1..Len(sent) : sent[n] = JoinMessage}) <= 1)

C13_Witness ==
    /\ last = Event("join_game", "rejected", TRUE)
    /\ playerId = Null
    /\ players = EmptyMap
    /\ myPlayer = NoPlayer
    /\ sent = <<JoinMessage>>

\* C14: a successful join_game response replaces the whole entity store and
\* the whole avatar catalog by the ones the message carries: nothing of the
\* earlier store or catalog is kept, and playerId becomes the message's.
C14_SnapshotReplacesStore ==
    [][\A m \in StoreJoins : Receive(m) =>
        /\ players' = m.players
        /\ avatars' = m.avatars
        /\ playerId' = m.playerId
        /\ \A i \in (DOMAIN players) \ (DOMAIN m.players) : i \notin DOMAIN players'
        /\ \A n \in (DOMAIN avatars) \ (DOMAIN m.avatars) : n \notin DOMAIN avatars']_vars

\* a second snapshot without p2 has replaced a store that held p2
C14_Witness ==
    /\ last = Event("join_game", "ok", TRUE)
    /\ DOMAIN players = {"p1"}
    /\ DOMAIN avatars = {"a1"}
    /\ "p2" \in DOMAIN playerPositions

\* C15: a player_joined message writes exactly one entity, replacing the
\* record of that id or adding it; the avatar catalog gains the message's
\* avatar under its name only if the message carries one; every other entity
\* and catalog entry, and playerId, stay as they were.
C15_PlayerJoinedUpsertsOne ==
    [][\A m \in StoreJoined : Receive(m) =>
        /\ DOMAIN players' = (DOMAIN players) \cup {m.player.id}
        /\ players'[m.player.id] = m.player
        /\ \A i \in (DOMAIN players) \ {m.player.id} : players'[i] = players[i]
        /\ IF "avatar" \in DOMAIN m
           THEN /\ DOMAIN avatars' = (DOMAIN avatars) \cup {m.avatar.name}
                /\ avatars'[m.avatar.name] = m.avatar
                /\ \A n \in (DOMAIN avatars) \ {m.avatar.name} : avatars'[n] = avatars[n]
           ELSE avatars' = avatars
        /\ playerId' = playerId]_vars

C15_Witness ==
    /\ last.ev = "player_joined"
    /\ DOMAIN players = Ids
    /\ players["p1"] = Entity("p1", 400, "south", FALSE)
    /\ players["p2"] = Entity("p2", 404, "south", FALSE)
    /\ DOMAIN avatars = {"a1", "a2"}
    /\ avatars["a1"] = Catalog["a1"]

\* C16: immediately after a snapshot, and after any players_moved message
\* that names the local player's id, myPlayer is the store's current record
\* for playerId (no record and no pointer when the store has none).
C16_PointerFollowsStore ==
    [][/\ \A m \in StoreJoins : Receive(m) => myPlayer' = Lookup(players', playerId')
       /\ \A m \in StoreMoves :
             (Receive(m) /\ playerId \in DOMAIN m.players) =>
                 myPlayer' = Lookup(players', playerId')]_vars

\* C17: a click while connected with a local player sends exactly one move
\* message whose x and y are integers: the floor of click / zoom + camera on
\* each axis, clamped to [0, worldWidth] and [0, worldHeight]; this for every
\* click position, zoom level and camera position.
C17_ClickSendsFlooredClampedTarget ==
    [][\A pt \in CanvasPoints :
        (CanvasClick(pt[1], pt[2]) /\ isConnected /\ myPlayer # NoPlayer) =>
            LET msg == sent'[Len(sent')]
                vx  == pt[1] * 10 + camera.x * zoomLevel
                vy  == pt[2] * 10 + camera.y * zoomLevel
            IN  /\ Len(sent') = Len(sent) + 1
                /\ SubSeq(sent', 1, Len(sent)) = sent
                /\ DOMAIN msg = {"action", "x", "y"}
                /\ msg.action = "move"
                /\ msg.x \in 0..worldWidth
                /\ msg.y \in 0..worldHeight
                /\ IF vx >= worldWidth * zoomLevel THEN msg.x = worldWidth
                   ELSE msg.x * zoomLevel <= vx /\ vx < (msg.x + 1) * zoomLevel
                /\ IF vy >= worldHeight * zoomLevel THEN msg.y = worldHeight
                   ELSE msg.y * zoomLevel <= vy /\ vy < (msg.y + 1) * zoomLevel]_vars

\* a click at (100, 50) under zoom 1.5 with the camera at (600, 700)
C17_Witness ==
    /\ last.ev = "click"
    /\ zoomLevel = 15
    /\ camera = [x |-> 600, y |-> 700]
    /\ sent = <<JoinMessage, ClickMessage(666, 733)>>

\* C18: a click leaves the pressed-key map and the repeat timer as they were,
\* and the first tick of the timer after a click still sends the move of the
\* held key (the highest-priority one) when the session is connected.
C18_ClickKeepsKeyRepeat ==
    [][/\ last'.ev = "click" => UNCHANGED inputVars
       /\ (last.ev = "click" /\ last'.ev = "tick" /\ isConnected) =>
             /\ ~NoKeyPressed(keysPressed)
             /\ sent' = Append(sent, MoveMessage(PriorityDirection(keysPressed)))]_vars

\* Left held since before the transport opened, a click sent, then a tick
C18_Witness ==
    /\ last.ev = "tick"
    /\ keysPressed["ArrowLeft"] /\ ~keysPressed["ArrowUp"]
    /\ movementInterval # 0
    /\ sent = <<JoinMessage, ClickMessage(100, 50), MoveMessage("left")>>

Abs(n) == IF n < 0 THEN -n ELSE n

\* a step that ran render(): a display tick or a handled store message
RenderStep ==
    \/ last'.ev \in {"frame", "players_moved", "player_joined", "player_left", "wheel", "resize"}
    \/ last'.ev = "join_game" /\ last'.arg = "ok"

\* entity i was displayed before the step and is interpolated by it
Interpolated(i) ==
    /\ RenderStep
    /\ i \in DOMAIN playerPositions
    /\ i \in DOMAIN players'

\* the step moves coordinate c to c2 no farther from t and not past t
NoOvershoot(c, c2, t) ==
    /\ c <= t => (c <= c2 /\ c2 <= t)
    /\ c >= t => (t <= c2 /\ c2 <= c)

\* C19 as stated: an interpolation step strictly decreases the distance of
\* the displayed position to its target on each axis whenever the two
\* differ, and never moves past the target.
C19_LerpStrictlyApproaches ==
    [][\A i \in Ids : Interpolated(i) =>
        \A a \in {"x", "y"} :
            LET c == playerPositions[i][a]
                c2 == playerPositions'[i][a]
                t == playerTargets'[i][a]
            IN  /\ NoOvershoot(c, c2, t)
                /\ c # t => Abs(t - c2) < Abs(t - c)]_vars

\* C19 amended: an interpolation step never increases the distance of the
\* displayed position to its target on either axis and never moves past the
\* target; the distance strictly decreases exactly when the step
\* (target - current) * 0.15 does not round to zero, so the displayed
\* position can come to rest short of the target.
C19_LerpNeverRecedes ==
    [][\A i \in Ids : Interpolated(i) =>
        \A a \in {"x", "y"} :
            LET c == playerPositions[i][a]
                c2 == playerPositions'[i][a]
                t == playerTargets'[i][a]
            IN  /\ NoOvershoot(c, c2, t)
                /\ Abs(t - c2) < Abs(t - c) <=> 2 * lerpSpeedPct * Abs(t - c) > 100]_vars

\* the displayed position at rest three units short of the target on each axis
C19_Witness ==
    /\ last.ev = "frame"
    /\ "p1" \in DOMAIN playerTargets
    /\ playerTargets["p1"] = [x |-> 420, y |-> 330]
    /\ playerPositions["p1"] = [x |-> 423, y |-> 333]

\* position p centred in a viewport of size dim at zoom 1, clamped to the world
CentredClamped(p, dim, world) == Max(0, Min(p - (dim \div 2), world - dim))

\* a camera update at zoom 1 for a local player displayed at rest
CameraStepAtRest ==
    /\ RenderStep
    /\ zoomLevel = 10
    /\ myPlayer' # NoPlayer
    /\ playerId' \in DOMAIN playerPositions'
    /\ playerId' \in DOMAIN playerPositions => playerPositions'[playerId'] = playerPositions[playerId']

InClampRange(c, dim, world, zoom) ==
    /\ c >= 0
    /\ c <= Max(0, world - Visible(dim, zoom))
    /\ Visible(dim, zoom) > world => c = 0

\* C21: after every camera update each camera axis lies in
\* [0, worldDimension - visibleDimension], visibleDimension being the canvas
\* dimension divided by the zoom; where the visible dimension exceeds the
\* world dimension the camera coordinate is exactly 0.
C21_CameraWithinWorld ==
    [][(RenderStep /\ myPlayer' # NoPlayer) =>
        /\ InClampRange(camera'.x, canvas'.width, worldWidth, zoomLevel')
        /\ InClampRange(camera'.y, canvas'.height, worldHeight, zoomLevel')
        /\ Visible(canvas'.width, zoomLevel') <= worldWidth =>
              camera'.x <= worldWidth - Visible(canvas'.width, zoomLevel')
        /\ Visible(canvas'.height, zoomLevel') <= worldHeight =>
              camera'.y <= worldHeight - Visible(canvas'.height, zoomLevel')]_vars

\* a window wider than the world at zoom 1: the update leaves the camera's x
\* at 0 although the player is at x = 1500, while the y axis is inside its range
C21_Witness ==
    /\ last.ev = "frame"
    /\ zoomLevel = 10
    /\ canvas = [width |-> 2560, height |-> 1440]
    /\ myPlayer = EntityAt("p1", 1500, 1000)
    /\ camera.x = 0
    /\ camera.y > 0

\* C22: the zoom level is within [0.5, 3.0] in every reachable state, for
\* every sequence of wheel, '+', '=', '-' and 'r' events.
C22_ZoomWithinLimits == zoomLevel >= 5 /\ zoomLevel <= 30

\* the wheel has been turned at the upper limit and the zoom stayed at 3.0
C22_Witness ==
    /\ last.ev = "wheel"
    /\ zoomLevel = 30
    /\ canvas.width = 2560

C24_WestIsMirroredEast ==
    \A i \in DOMAIN players :
        LET r == ResolveFacing(players[i])
        IN  /\ r.direction # "west"
            /\ IF "facing" \notin DOMAIN players[i]
               THEN r = [direction |-> "south", flipHorizontal |-> FALSE]
               ELSE IF players[i].facing = "west"
               THEN r = [direction |-> "east", flipHorizontal |-> TRUE]
               ELSE r = [direction |-> players[i].facing, flipHorizontal |-> FALSE]

\* an entity facing west has been drawn by a display tick
C24_Witness ==
    /\ last.ev = "frame"
    /\ frameClock = FrameStep
    /\ "facing" \in DOMAIN players["p1"]
    /\ players["p1"].facing = "west"
    /\ ResolveFacing(players["p1"]) = [direction |-> "east", flipHorizontal |-> TRUE]

\* C25: in every reachable state every id with an interpolated-position or
\* target record is an id of the entity store, also after a snapshot that
\* replaces the entity set.
C25_NoDanglingInterpolation ==
    /\ DOMAIN playerPositions \subseteq DOMAIN players
    /\ DOMAIN playerTargets \subseteq DOMAIN players

\* C26: at most one movement-repeat timer is outstanding, and it is the one
\* the handle names; a key-down while the handle is set starts no timer;
\* stopping clears the timer with the handle, so a tick runs only while the
\* handle is set.
C26_OneRepeatTimer ==
    /\ [](/\ Cardinality(liveIntervals) <= 1
          /\ movementInterval = 0 => liveIntervals = {}
          /\ movementInterval # 0 => liveIntervals = {movementInterval})
    /\ [][/\ last'.ev = "tick" => (movementInterval # 0 /\ ~NoKeyPressed(keysPressed))
          /\ (last'.ev = "keydown" /\ movementInterval # 0) =>
                UNCHANGED <<movementInterval, liveIntervals, sent>>
          /\ (movementInterval # 0 /\ movementInterval' = 0) => liveIntervals' = {}]_vars

\* a second key pressed while the loop runs: one timer, and one move sent
C26_Witness ==
    /\ last = Event("keydown", "", FALSE)
    /\ isConnected
    /\ keysPressed["ArrowUp"] /\ keysPressed["ArrowLeft"]
    /\ movementInterval # 0
    /\ liveIntervals = {movementInterval}
    /\ sent = <<JoinMessage, MoveMessage("left")>>

\* C27: after every interpolation step, for every entity of the store, the
\* target is the entity's position; an entity without a position record gets
\* current = target = its position; a target equal to the entity's position
\* is left as it is.
C27_TargetTracksStore ==
    [][RenderStep =>
        \A i \in DOMAIN players' :
            /\ i \in DOMAIN playerTargets' /\ i \in DOMAIN playerPositions'
            /\ playerTargets'[i] = XY(players'[i])
            /\ (i \notin DOMAIN playerPositions \/
                   (last'.ev = "player_left" /\ last'.arg = i)) =>
                  playerPositions'[i] = XY(players'[i])
            /\ (i \in DOMAIN playerTargets /\ playerTargets[i] = XY(players'[i])) =>
                  playerTargets'[i] = playerTargets[i]]_vars

\* p2 has joined at x = 404 and is displayed there at once, while p1's move
\* to x = 404 is being interpolated
C27_Witness ==
    /\ last.ev = "player_joined"
    /\ DOMAIN players = Ids
    /\ DOMAIN playerPositions = Ids
    /\ players["p1"].x = 404 /\ players["p2"].x = 404
    /\ playerTargets["p1"].x = 404 /\ playerTargets["p2"].x = 404
    /\ playerPositions["p2"].x = 404
    /\ playerPositions["p1"].x < 404

\* C28: interpolated positions and the camera advance only in the step of a
\* display tick: no other event moves an entity's displayed position or the
\* camera.
C28_AdvanceOnlyOnDisplayTick ==
    [][(\/ camera' # camera
        \/ \E i \in (DOMAIN playerPositions) \cap (DOMAIN playerPositions') :
               playerPositions'[i] # playerPositions[i]) =>
        last'.ev = "frame"]_vars

\* C29: while there is no local player, a display tick leaves the camera
\* where it is.
C29_NoCameraWithoutLocalPlayer ==
    [][(last'.ev = "frame" /\ myPlayer = NoPlayer) => camera' = camera]_vars

\* a display tick with entities in the store but no join response yet
C29_Witness ==
    /\ last.ev = "frame"
    /\ playerId = Null
    /\ myPlayer = NoPlayer
    /\ DOMAIN players = Ids
    /\ camera = [x |-> 0, y |-> 0]

\* C30: in every reachable state the movement-repeat timer is running if and
\* only if at least one directional key is recorded as pressed.
C30_TimerRunsIffKeyHeld ==
    /\ movementInterval # 0 <=> ~NoKeyPressed(keysPressed)
    /\ liveIntervals # {} <=> ~NoKeyPressed(keysPressed)

\* a key held across a closure: the timer is still running while disconnected
C30_Witness ==
    /\ last.ev = "close"
    /\ ~isConnected
    /\ keysPressed["ArrowUp"] /\ ~keysPressed["ArrowLeft"]
    /\ movementInterval # 0
    /\ sent = <<JoinMessage, MoveMessage("up")>>

\* C31: a stop message is sent only in a step that halts a running movement
\* loop; a key-up that arrives while no loop is running sends nothing.
C31_StopOnlyWhenLoopHalted ==
    [][/\ (Len(sent') > Len(sent) /\ sent'[Len(sent')] = StopMessage) =>
              (movementInterval # 0 /\ movementInterval' = 0)
       /\ (last'.ev = "keyup" /\ movementInterval = 0) => sent' = sent]_vars

\* C32: in every reachable state the local player pointer is null or is the
\* store's current record for playerId.
C32_PointerIsStoreRecord ==
    \/ myPlayer = NoPlayer
    \/ /\ playerId \in DOMAIN players
       /\ myPlayer = players[playerId]

\* C33: a key held across a disconnect and the reconnect keeps the movement
\* loop running.  No connection event and no tick changes the recorded keys
\* or the timer; a tick while disconnected sends nothing; a tick while
\* connected sends the move of the held key of highest priority, with no key
\* press needed, and the session's join request is already the first message
\* sent.
C33_HeldKeyResumesAfterReconnect ==
    /\ [][last'.ev \in {"open", "close", "error", "time", "reconnect", "tick"} =>
              UNCHANGED <<keysPressed, movementInterval, liveIntervals>>]_vars
    /\ [][(last'.ev = "tick" /\ ~isConnected) => sent' = sent]_vars
    /\ [][(last'.ev = "tick" /\ isConnected) =>
              /\ ~NoKeyPressed(keysPressed)
              /\ sent # <<>> /\ sent[1] = JoinMessage
              /\ sent' = Append(sent, MoveMessage(PriorityDirection(keysPressed)))]_vars

\* second session: its only move was sent by a tick, for a key that went
\* down before this session opened and is still held
C33_Witness ==
    /\ Len(socks) = 2
    /\ socks[2] = "open"
    /\ isConnected
    /\ last.ev = "tick"
    /\ keysPressed["ArrowLeft"] /\ ~keysPressed["ArrowUp"]
    /\ movementInterval # 0
    /\ sent = <<JoinMessage, MoveMessage("left")>>

\* C34: for every sequence of display ticks and event-triggered renders the
\* animation timer equals the last frame time and is never negative, so the
\* frame index of a moving entity is 0, 1 or 2.
C34_TimerIsLastFrameTime ==
    /\ animationTimer = lastFrameTime
    /\ animationTimer >= 0
    /\ \A i \in DOMAIN players :
          ("isMoving" \in DOMAIN players[i] /\ players[i].isMoving) =>
              AnimationFrameOf(players[i], animationTimer) \in {0, 1, 2}

====
